---------------------------- MODULE Spec2Model ----------------------------
(***************************************************************************)
(* State-machine model of kom.py (Strava KOM tracker): main() running      *)
(* KOM.__init__, KOM.RefreshKOMs, KOM.Diff, KOM.GetSegmentName and the      *)
(* archival steps (os.unlink, KOM._SaveToFile, os.symlink) against a small  *)
(* file system, over several successive invocations of the program.        *)
(*                                                                         *)
(* Abstractions:                                                           *)
(*  - a page of HTML is represented by the sequence of regex matches       *)
(*    (id, name) that re.finditer yields on it, in order of appearance;    *)
(*  - a path is the sequence of digits that follows 'koms.json.' in the    *)
(*    file's name: the empty sequence is 'koms.json' itself;               *)
(*  - a file's text is the sequence of members of the JSON object it       *)
(*    holds, or an invalid text (truncated / not JSON);                    *)
(*  - ids and names are compared by their text: that json.load returns     *)
(*    unicode objects where the parser stores byte strings is not shown.   *)
(***************************************************************************)
EXTENDS Integers, Sequences, FiniteSets

\* ------------------------------------------------------------ constants

\* kom.py:13
MAX_KOM_PAGES == 10

\* Number of invocations of main() a behaviour may contain.
MaxRuns == 2

\* 'koms.json', the stable name (kom.py:21, 141, 143).
Stable == << >>

\* No path: what a name that cannot be opened resolves to, and the value of
\* json_today before it is computed.
NoPath == << -1 >>

\* A segment name whose bytes are not valid UTF-8 (the regex group [^"]+
\* matches any bytes); json.dump cannot encode it.
NonUtf8 == "xFF"

Match(id, name) == [id |-> id, name |-> name]

\* The page contents the server may return (each a sequence of matches).
EmptyPage == << >>

Pages ==
  { EmptyPage,
    << Match(2, "B"), Match(3, "C") >>,
    << Match(1, "B"), Match(1, "A") >>,
    << Match(3, NonUtf8) >> }

\* The calendar days datetime.now() may report.
Days ==
  << [year |-> 2012, month |-> 1, day |-> 11],
     [year |-> 2012, month |-> 11, day |-> 1] >>

\* ------------------------------------------------------------ mappings

\* {} : the empty dict.
EmptyMap == [k \in {} |-> "A"]

\* d[k] = v on a dict.
Put(m, k, v) == [x \in (DOMAIN m) \cup {k} |-> IF x = k THEN v ELSE m[x]]

Min(S) == CHOOSE x \in S : \A y \in S : x <= y

\* ------------------------------------------------------------ JSON text

\* A text that is not a JSON document (empty or truncated file).
Invalid == [valid |-> FALSE, members |-> << >>]

\* The members json.dump writes for the keys of m. A dict's iteration order
\* is the interpreter's; json.load gives the same dict for any order, so the
\* members are written by ascending key.
RECURSIVE DumpMembers(_, _)
DumpMembers(m, keys) ==
  IF keys = {} THEN << >>
  ELSE LET k == Min(keys)
       IN  << Match(k, m[k]) >> \o DumpMembers(m, keys \ {k})

\* json.dump raises UnicodeDecodeError on a str that is not UTF-8.
Encodable(m) == \A k \in DOMAIN m : m[k] # NonUtf8

\* json.dump(m, f): the object's members, one per key of the dict.
Dumps(m) == [valid |-> TRUE, members |-> DumpMembers(m, DOMAIN m)]

RECURSIVE LoadMembers(_, _, _)
LoadMembers(m, members, i) ==
  IF i > Len(members) THEN m
  ELSE LoadMembers(Put(m, members[i].id, members[i].name), members, i + 1)

\* json.load(f) on a valid text: a dict built member by member.
Loads(text) == LoadMembers(EmptyMap, text.members, 1)

\* ------------------------------------------------------------ file system

File(text) == [kind |-> "file", text |-> text, target |-> NoPath]
Link(target) == [kind |-> "link", text |-> Invalid, target |-> target]

\* The path a name resolves to when opened (symbolic links followed), or
\* NoPath when a link on the way dangles or the links loop.
RECURSIVE Follow(_, _, _)
Follow(f, p, fuel) ==
  IF p \notin DOMAIN f THEN NoPath
  ELSE IF f[p].kind = "file" THEN p
  ELSE IF fuel = 0 THEN NoPath
  ELSE Follow(f, f[p].target, fuel - 1)

Resolve(f, p) == Follow(f, p, Cardinality(DOMAIN f))

\* The path open(p, 'wb') writes to: a link is followed to its target, which
\* is created when missing.
RECURSIVE WriteTarget(_, _, _)
WriteTarget(f, p, fuel) ==
  IF p \notin DOMAIN f THEN p
  ELSE IF f[p].kind = "file" THEN p
  ELSE IF fuel = 0 THEN NoPath
  ELSE WriteTarget(f, f[p].target, fuel - 1)

\* The file system with text written at path p.
WriteFile(f, p, text) ==
  [q \in (DOMAIN f) \cup {p} |-> IF q = p THEN File(text) ELSE f[q]]


\* ------------------------------------------------------------ dated names

RECURSIVE Digits(_)
Digits(n) == IF n < 10 THEN << n >> ELSE Digits(n \div 10) \o << n % 10 >>

\* '%0<width>d' % n
RECURSIVE ZeroPad(_, _)
ZeroPad(ds, width) == IF Len(ds) >= width THEN ds ELSE ZeroPad(<< 0 >> \o ds, width)

\* Unpadded formatting, '%d%d%d': two days may get one name.
DatedNameUnpadded(now) == Digits(now.year) \o Digits(now.month) \o Digits(now.day)

\* 'koms.json.%04d%02d%02d' % (now.year, now.month, now.day)
DatedName(now) ==
  ZeroPad(Digits(now.year), 4) \o ZeroPad(Digits(now.month), 2)
    \o ZeroPad(Digits(now.day), 2)

\* ------------------------------------------------------------ KOM methods

RECURSIVE ApplyMatches(_, _, _)
ApplyMatches(k, html, i) ==
  IF i > Len(html) THEN k
  ELSE ApplyMatches(Put(k, html[i].id, html[i].name), html, i + 1)

RECURSIVE ApplyMatchesKeepFirst(_, _, _)
ApplyMatchesKeepFirst(k, html, i) ==
  IF i > Len(html) THEN k
  ELSE ApplyMatchesKeepFirst(
         IF html[i].id \in DOMAIN k THEN k ELSE Put(k, html[i].id, html[i].name),
         html, i + 1)

\* _ParseSegments with self.koms.setdefault(id, name): the first match wins.
ParseSegmentsKeepFirst(k, html) ==
  [koms |-> ApplyMatchesKeepFirst(k, html, 1), found |-> Len(html) > 0]

\* KOM._ParseSegments: every match is stored into self.koms, in order; the
\* result tells whether the page had a match.
ParseSegments(k, html) ==
  [koms |-> ApplyMatches(k, html, 1), found |-> Len(html) > 0]

\* KOM._LoadFromFile: the dict loaded, the exception raised ("none" when it
\* returns) and the files it leaves open.
LoadFromFile(f, filename) ==
  LET p == Resolve(f, filename)
  IN  IF p = NoPath
        THEN [koms |-> Loads(Dumps(EmptyMap)), error |-> "none", open |-> {}]
      ELSE IF ~f[p].text.valid
        THEN [koms |-> EmptyMap, error |-> "ValueError", open |-> {p}]
      ELSE [koms |-> Loads(f[p].text), error |-> "none", open |-> {}]

\* KOM._SaveToFile: open(filename, 'wb') truncates the file; json.dump writes
\* the dict or raises before f.close() is reached.
SaveToFile(f, k, filename) ==
  LET p == WriteTarget(f, filename, Cardinality(DOMAIN f))
  IN  IF Encodable(k)
        THEN [fs |-> WriteFile(f, p, Dumps(k)), error |-> "none", open |-> {}]
        ELSE [fs |-> WriteFile(f, p, Invalid), error |-> "UnicodeDecodeError",
              open |-> {p}]

\* Diff with the two differences in the other order.
DiffSwapped(old_k, k) ==
  LET old == DOMAIN old_k
      new == DOMAIN k
  IN  << old \ new, new \ old >>

\* KOM.Diff: [new - old, old - new]
Diff(old_k, k) ==
  LET old == DOMAIN old_k
      new == DOMAIN k
  IN  << new \ old, old \ new >>

\* GetSegmentName without the except clause.
GetSegmentNameNoFallback(k, old_k, segment_id) ==
  IF segment_id \in DOMAIN k THEN k[segment_id] ELSE "KeyError"

\* KOM.GetSegmentName: self.koms first, self.old_koms on KeyError; a KeyError
\* of the second lookup propagates.
GetSegmentName(k, old_k, segment_id) ==
  IF segment_id \in DOMAIN k THEN k[segment_id]
  ELSE IF segment_id \in DOMAIN old_k THEN old_k[segment_id]
  ELSE "KeyError"

\* The loop with range(1, MAX_KOM_PAGES + 2).
NextPageOffByOne(n, found) == found /\ n + 1 < MAX_KOM_PAGES + 2

\* for page in range(1, MAX_KOM_PAGES + 1): ... if not found: break
\* Whether the loop goes on to another page after parsing page number n.
NextPage(n, found) == found /\ n + 1 < MAX_KOM_PAGES + 1

\* ------------------------------------------------------------ state

VARIABLES
  pc,          \* where main() is: idle, paging, report, unlink, save,
               \* symlink, done, aborted
  run,         \* number of invocations of main() started
  fs,          \* the directory: path -> file or symbolic link
  handles,     \* paths of the files the process holds open
  koms,        \* KOM.koms
  old_koms,    \* KOM.old_koms
  page,        \* the loop variable of RefreshKOMs
  diff,        \* main's diff
  output,      \* the lines printed
  now,         \* main's now, as an index into Days (0: not read yet)
  json_today,  \* main's json_today
  error,       \* the exception that ended the run ("none": none)
  fetched,     \* history: the pages requested in this run and how each ended
  matched,     \* history: id -> name of the last match of id in this run
  fs_at_start, \* history: fs when this run started
  archived     \* history: the days (indices into Days) of the completed runs

vars ==
  << pc, run, fs, handles, koms, old_koms, page, diff, output, now,
     json_today, error, fetched, matched, fs_at_start, archived >>

\* The directory before the first run: no koms.json, or a koms.json written
\* by hand (an empty object, a snapshot, or something that is not JSON).
InitialDirs ==
  { EmptyMap,
    [p \in {Stable} |-> File(Dumps(EmptyMap))],
    [p \in {Stable} |-> File(Dumps(ApplyMatches(EmptyMap,
                            << Match(1, "A"), Match(2, "B") >>, 1)))],
    [p \in {Stable} |-> File(Invalid)] }

Init ==
  /\ pc = "idle"
  /\ run = 0
  /\ fs \in InitialDirs
  /\ handles = {}
  /\ koms = EmptyMap
  /\ old_koms = EmptyMap
  /\ page = 1
  /\ diff = << {}, {} >>
  /\ output = {}
  /\ now = 0
  /\ json_today = NoPath
  /\ error = "none"
  /\ fetched = << >>
  /\ matched = EmptyMap
  /\ fs_at_start = fs
  /\ archived = {}

\* ------------------------------------------------------------ actions

\* main() is started (a new process: no file is open) and constructs the KOM
\* object: kom.py:124, KOM.__init__.
KOMInit ==
  /\ pc \in {"idle", "done", "aborted"}
  /\ run < MaxRuns
  /\ LET r == LoadFromFile(fs, Stable)
     IN  /\ old_koms' = r.koms
         /\ handles' = r.open
         /\ error' = r.error
         /\ pc' = IF r.error = "none" THEN "paging" ELSE "aborted"
  /\ koms' = EmptyMap
  /\ run' = run + 1
  /\ page' = 1
  /\ diff' = << {}, {} >>
  /\ output' = {}
  /\ now' = 0
  /\ json_today' = NoPath
  /\ fetched' = << >>
  /\ matched' = EmptyMap
  /\ fs_at_start' = fs
  /\ UNCHANGED << fs, archived >>

\* The name of id's last match on a page (history, for matched).
LastNameOn(html, id) ==
  html[CHOOSE i \in 1..Len(html) :
         /\ html[i].id = id
         /\ \A j \in (i + 1)..Len(html) : html[j].id # id].name

IdsOn(html) == { html[i].id : i \in 1..Len(html) }

\* One iteration of the loop of RefreshKOMs whose fetch succeeds:
\* kom.py:78-81.
FetchAndParse ==
  /\ pc = "paging"
  /\ \E html \in Pages :
       LET r == ParseSegments(koms, html)
       IN  /\ koms' = r.koms
           /\ fetched' = Append(fetched, [page |-> page, found |-> r.found,
                                          failed |-> FALSE])
           /\ matched' = [id \in (DOMAIN matched) \cup IdsOn(html) |->
                            IF id \in IdsOn(html) THEN LastNameOn(html, id)
                            ELSE matched[id]]
           /\ IF NextPage(page, r.found)
                THEN /\ page' = page + 1
                     /\ pc' = "paging"
                ELSE /\ page' = page
                     /\ pc' = "report"
  /\ UNCHANGED << run, fs, handles, old_koms, diff, output, now, json_today,
                  error, fs_at_start, archived >>

\* A fetch failure handled by saving what was fetched so far to koms.json.
FetchFailsSavingPartial ==
  /\ pc = "paging"
  /\ fetched' = Append(fetched, [page |-> page, found |-> FALSE,
                                 failed |-> TRUE])
  /\ error' = "URLError"
  /\ pc' = "aborted"
  /\ fs' = SaveToFile(fs, koms, Stable).fs
  /\ UNCHANGED << run, handles, koms, old_koms, page, diff, output, now,
                  json_today, fs_at_start, archived, matched >>

\* urllib2.urlopen raises in _FetchPage: the exception ends the run,
\* kom.py:30, 79.
FetchFails ==
  /\ pc = "paging"
  /\ fetched' = Append(fetched, [page |-> page, found |-> FALSE,
                                 failed |-> TRUE])
  /\ error' = "URLError"
  /\ pc' = "aborted"
  /\ UNCHANGED << run, fs, handles, koms, old_koms, page, diff, output, now,
                  json_today, fs_at_start, archived, matched >>

\* The lines main prints for a diff.
Lines(d, k, old_k) ==
  { [sign |-> "+", id |-> id, name |-> GetSegmentName(k, old_k, id)] : id \in d[1] }
    \cup
  { [sign |-> "-", id |-> id, name |-> GetSegmentName(k, old_k, id)] : id \in d[2] }

\* main computes and prints the diff, then reads the date and names today's
\* file: kom.py:126-138. datetime.now() may report any of Days.
Report ==
  /\ pc = "report"
  /\ LET d == Diff(old_koms, koms)
         out == Lines(d, koms, old_koms)
     IN  /\ diff' = d
         /\ output' = out
         /\ IF \E l \in out : l.name = "KeyError"
              THEN /\ error' = "KeyError"
                   /\ pc' = "aborted"
                   /\ UNCHANGED << now, json_today >>
              ELSE /\ \E t \in 1..Len(Days) :
                        /\ now' = t
                        /\ json_today' = DatedName(Days[t])
                   /\ pc' = "unlink"
                   /\ UNCHANGED error
  /\ UNCHANGED << run, fs, handles, koms, old_koms, page, fetched, matched,
                  fs_at_start, archived >>

\* os.unlink('koms.json'): kom.py:141. OSError when there is no such name.
UnlinkStable ==
  /\ pc = "unlink"
  /\ IF Stable \in DOMAIN fs
       THEN /\ fs' = [p \in (DOMAIN fs) \ {Stable} |-> fs[p]]
            /\ pc' = "save"
            /\ UNCHANGED error
       ELSE /\ error' = "OSError"
            /\ pc' = "aborted"
            /\ UNCHANGED fs
  /\ UNCHANGED << run, handles, koms, old_koms, page, diff, output, now,
                  json_today, fetched, matched, fs_at_start, archived >>

\* The save dumping self.old_koms instead of self.koms.
SaveTodayOldKoms ==
  /\ pc = "save"
  /\ LET r == SaveToFile(fs, old_koms, json_today)
     IN  /\ fs' = r.fs
         /\ handles' = handles \cup r.open
         /\ error' = r.error
         /\ pc' = IF r.error = "none" THEN "symlink" ELSE "aborted"
  /\ UNCHANGED << run, koms, old_koms, page, diff, output, now, json_today,
                  fetched, matched, fs_at_start, archived >>

\* kom._SaveToFile(json_today): kom.py:142.
SaveToday ==
  /\ pc = "save"
  /\ LET r == SaveToFile(fs, koms, json_today)
     IN  /\ fs' = r.fs
         /\ handles' = handles \cup r.open
         /\ error' = r.error
         /\ pc' = IF r.error = "none" THEN "symlink" ELSE "aborted"
  /\ UNCHANGED << run, koms, old_koms, page, diff, output, now, json_today,
                  fetched, matched, fs_at_start, archived >>

\* os.symlink(json_today, 'koms.json'): kom.py:143. OSError when the name
\* exists. main returns.
SymlinkStable ==
  /\ pc = "symlink"
  /\ IF Stable \notin DOMAIN fs
       THEN /\ fs' = [p \in (DOMAIN fs) \cup {Stable} |->
                        IF p = Stable THEN Link(json_today) ELSE fs[p]]
            /\ archived' = archived \cup {now}
            /\ pc' = "done"
            /\ UNCHANGED error
       ELSE /\ error' = "OSError"
            /\ pc' = "aborted"
            /\ UNCHANGED << fs, archived >>
  /\ UNCHANGED << run, handles, koms, old_koms, page, diff, output, now,
                  json_today, fetched, matched, fs_at_start >>

Next ==
  \/ KOMInit
  \/ FetchAndParse
  \/ FetchFails
  \/ Report
  \/ UnlinkStable
  \/ SaveToday
  \/ SymlinkStable

Spec == Init /\ [][Next]_vars

\* ------------------------------------------------------------ properties

\* The diff has been computed in this run.
Reported == now # 0

\* The pagination loop of this run has ended without a fetch failure.
PagingDone == pc \in {"report", "unlink", "save", "symlink", "done"}
                \/ (pc = "aborted" /\ error \notin {"ValueError", "URLError"})

\* Page numbers whose request did not yield a match (zero matches or failure).
ZeroPages == { i \in 1..Len(fetched) : ~fetched[i].found }

\* C1: RefreshKOMs requests pages 1, 2, ... in increasing order with no gap,
\* never more than MAX_KOM_PAGES of them and none after a page without a
\* match; when the loop has ended, the last page requested is the first
\* zero-match page, or page MAX_KOM_PAGES if every page had a match.
C1_PagesInOrderBounded ==
  /\ Len(fetched) <= MAX_KOM_PAGES
  /\ \A i \in 1..Len(fetched) : fetched[i].page = i
  /\ \A i \in ZeroPages : i = Len(fetched)
  /\ pc = "paging" => page = Len(fetched) + 1 /\ ZeroPages = {}
  /\ PagingDone =>
       Len(fetched) = (IF ZeroPages # {} THEN Min(ZeroPages) ELSE MAX_KOM_PAGES)

\* Every one of MAX_KOM_PAGES pages had a match and the loop has ended.
C1_Witness ==
  /\ pc = "report"
  /\ Len(fetched) = MAX_KOM_PAGES
  /\ \A i \in 1..Len(fetched) : fetched[i].found

\* The members of the snapshot koms.json resolved to when the run started.
StartMembers ==
  LET p == Resolve(fs_at_start, Stable)
  IN  IF p = NoPath THEN << >> ELSE fs_at_start[p].text.members

PrevKeys == { StartMembers[i].id : i \in 1..Len(StartMembers) }

\* C2: the diff of a run is (ids matched in the run that were not keys of
\* the snapshot found at startup, keys of that snapshot not matched in the
\* run); the two sets are disjoint, and both are empty when the key sets
\* are equal.
C2_DiffIsSetDifference ==
  Reported =>
    LET cur == DOMAIN matched
    IN  /\ diff[1] = { id \in cur : id \notin PrevKeys }
        /\ diff[2] = { id \in PrevKeys : id \notin cur }
        /\ diff[1] \cap diff[2] = {}
        /\ (PrevKeys = cur => diff[1] = {} /\ diff[2] = {})
        /\ PagingDone

\* A run that both gained and lost segments.
C2_Witness == Reported /\ diff[1] = {3} /\ diff[2] = {1}

\* C3: a run started with no koms.json has the empty previous snapshot,
\* reports every fetched segment as gained and is not ended by an error of
\* its own archival: it goes on to write the dated file and create
\* koms.json.
C3_FirstRunCompletes ==
  (run >= 1 /\ Stable \notin DOMAIN fs_at_start) =>
    /\ old_koms = EmptyMap
    /\ Reported => diff[1] = DOMAIN koms
    /\ error # "OSError"
    /\ pc = "done" => Resolve(fs, Stable) = json_today

\* koms.json resolves to a complete snapshot in directory f.
ResolvesToSnapshot(f) ==
  LET p == Resolve(f, Stable)
  IN  p # NoPath /\ f[p].text.valid

\* C4: when koms.json resolved to a complete snapshot at the start of the
\* run, it resolves to a complete snapshot in every state of the run.
C4_PointerAlwaysResolves ==
  (run >= 1 /\ ResolvesToSnapshot(fs_at_start)) => ResolvesToSnapshot(fs)

\* C5: a run ended by a fetch failure leaves the directory exactly as it was
\* when the run started, and so does every state of the pagination loop.
C5_FetchFailureLeavesFiles ==
  /\ error = "URLError" => pc = "aborted" /\ fs = fs_at_start
  /\ pc = "paging" => fs = fs_at_start

\* A fetch fails after pages with matches were parsed.
C5_Witness ==
  /\ error = "URLError"
  /\ Len(fetched) >= 3
  /\ koms # EmptyMap
  /\ Stable \in DOMAIN fs

\* The members and the mapping hold the same pairs, one member per key.
SameContent(members, m) ==
  /\ Len(members) = Cardinality(DOMAIN m)
  /\ { members[i] : i \in 1..Len(members) } = { Match(id, m[id]) : id \in DOMAIN m }

\* After a completed run koms.json is a link to the run's dated file, which
\* holds exactly the pairs matched in the run, and loading koms.json yields
\* the run's mapping.
StableHoldsCurrent ==
  pc = "done" =>
    /\ json_today = DatedName(Days[now])
    /\ Stable \in DOMAIN fs /\ fs[Stable] = Link(json_today)
    /\ json_today \in DOMAIN fs /\ fs[json_today].kind = "file"
    /\ fs[json_today].text.valid
    /\ SameContent(fs[json_today].text.members, matched)
    /\ LoadFromFile(fs, Stable) = [koms |-> koms, error |-> "none", open |-> {}]

\* C6: after a completed run, koms.json loads to exactly the mapping
\* accumulated from the run's pages, the content of the dated file it points
\* to; and the run that follows a completed run starts with that mapping as
\* its previous snapshot.
C6_StableSnapshotIsCurrent ==
  /\ []StableHoldsCurrent
  /\ [][(pc = "done" /\ pc' # "done") => (pc' = "paging" /\ old_koms' = koms)]_vars

\* Previous {1:A, 2:B}, pages {2:B, 3:C} then an empty page.
C6_Witness ==
  /\ pc = "done"
  /\ old_koms = ApplyMatches(EmptyMap, << Match(1, "A"), Match(2, "B") >>, 1)
  /\ koms = ApplyMatches(EmptyMap, << Match(2, "B"), Match(3, "C") >>, 1)
  /\ Len(fetched) = 2

\* C7 as stated: no step of a run that raises nothing changes or removes
\* the dated file of an earlier completed run.
C7_NoArchiveEverChanges ==
  [][error' = "none" =>
       \A d \in archived :
         LET p == DatedName(Days[d])
         IN  p \in DOMAIN fs' /\ fs'[p] = fs[p]]_vars

\* C7 amended: no step of a run changes or removes the dated file of a run
\* completed on another day, and the dated file of every completed run exists.
C7_OtherDaysArchivesKept ==
  /\ [](\A d \in archived :
          LET p == DatedName(Days[d])
          IN  p \in DOMAIN fs /\ fs[p].kind = "file")
  /\ [][\A d \in archived :
          d # now =>
            LET p == DatedName(Days[d])
            IN  p \in DOMAIN fs' /\ fs'[p] = fs[p]]_vars

\* Two runs completed on two days, each one's snapshot under its own name.
C7_Witness ==
  /\ pc = "done"
  /\ archived = {1, 2}
  /\ now = 2
  /\ DatedName(Days[1]) \in DOMAIN fs
  /\ fs[DatedName(Days[1])].text.valid
  /\ fs[DatedName(Days[1])].text # fs[DatedName(Days[2])].text

\* C8: every gained id is printed with its name in the current snapshot,
\* every lost id with its name in the previous snapshot, no lookup raises
\* KeyError, and an id that is in the current snapshot resolves to its
\* current name whatever the previous snapshot holds.
C8_NamesResolve ==
  /\ error # "KeyError"
  /\ Reported =>
       /\ \A id \in diff[1] : [sign |-> "+", id |-> id, name |-> koms[id]] \in output
       /\ \A id \in diff[2] : [sign |-> "-", id |-> id, name |-> old_koms[id]] \in output
       /\ Cardinality(output) = Cardinality(diff[1]) + Cardinality(diff[2])
  /\ \A id \in DOMAIN koms : GetSegmentName(koms, old_koms, id) = koms[id]

\* The lines '+ 3 C' and '- 1 A' are printed.
C8_Witness ==
  /\ Reported
  /\ output = { [sign |-> "+", id |-> 3, name |-> "C"],
                [sign |-> "-", id |-> 1, name |-> "A"] }

\* C9: in every state the current snapshot holds exactly the ids matched so
\* far in the run, each with the name of its last match; it is empty before
\* the first page is parsed.
C9_KomsAreLastMatches ==
  /\ DOMAIN koms = DOMAIN matched
  /\ \A id \in DOMAIN matched : koms[id] = matched[id]
  /\ Len(fetched) = 0 => koms = EmptyMap

\* Id 1 matched twice on one page, id 3 on two pages, with a previous
\* snapshot that is not empty.
C9_Witness ==
  /\ pc = "paging"
  /\ old_koms # EmptyMap
  /\ DOMAIN koms = {1, 2, 3}
  /\ koms[1] = "A"
  /\ koms[3] = NonUtf8

\* C10: no file is left open by _LoadFromFile or _SaveToFile, whether they
\* return or raise.
C10_NoHandleLeftOpen == handles = {}

=============================================================================
